---- MODULE Spec2Model ----
(***************************************************************************)
(* State-machine model of dyndns_dreamhost.py: the body of main() from the *)
(* parsed parameters on (lines 174-221), the Dreamhost API client          *)
(* functions it calls (request_json, dyndns_list, dyndns_rem, dyndns_add,  *)
(* dyndns_clean), get_current_ip and the Log class.                        *)
(*                                                                         *)
(* The construction of the argument parser (lines 159-172) is not part of  *)
(* the model: add_argument('-h', '--hard') at line 169 clashes with        *)
(* argparse's own -h and raises ArgumentError, so main() as written stops  *)
(* there.  The model takes params as given and starts at line 174, where   *)
(* the flow of the specification starts.                                   *)
(*                                                                         *)
(* The remote provider, the local network stack and the cache file are     *)
(* the environment: the provider's answer to each request and the outcome  *)
(* of the socket connect are chosen nondeterministically.  Successive      *)
(* invocations (scheduler ticks) share the provider's records and the      *)
(* cache file.                                                             *)
(***************************************************************************)
EXTENDS Naturals, Sequences, FiniteSets, TLC

(* ------------------------------ bounds -------------------------------- *)

\* number of records the provider holds initially (at most)
MaxRecords == 2
\* number of successive invocations of main()
MaxRuns == 2

(* ------------------------------ values -------------------------------- *)

None == "None"
\* a local that was never assigned (current_ip after a failed resolution)
Unbound == "Unbound"

\* params.hostname of the invocations, and another host of the same account
hostname == "host.example.com"
Hostnames == {hostname, "other.example.com"}
RecordTypes == {"A", "MX"}
IPs == {"203.0.113.5", "203.0.113.9"}
EditableFlags == {"0", "1"}

\* the record objects of the provider's "data" list: the address records of
\* the hostname with every value, and the records of another host or another
\* type with one value
DnsRecords ==
    {x \in [record : Hostnames, type : RecordTypes, value : IPs,
            editable : EditableFlags] :
        (x.record = hostname /\ x.type = "A") \/ x.value = "203.0.113.5"}

RecordKey(x) == <<x.record, x.type, x.value>>

\* outcome of one HTTP request: the provider answers result=success, answers
\* another result, the transport fails (URLError) or the body is not JSON
Outcomes == {"success", "error", "urlerror", "invalid_json"}

\* a dns-list_records request may also be answered with the result the
\* provider gives when the account has no record to list
ListOutcomes == Outcomes \cup {"no_records"}

NoFile == [exists |-> FALSE, content |-> <<>>]
File(c) == [exists |-> TRUE, content |-> c]

NoResults == [none |-> TRUE, list |-> <<>>]
ResultList(s) == [none |-> FALSE, list |-> s]

\* the local network stack cannot select a source address
Unreachable == "unreachable"

\* what an invocation records of the one before it: whether both are normal
\* runs without the force flag that resolve the same current IP, and the
\* number of dns-add_record requests of the earlier one
\* (update: the earlier one decided to update; crashed: and it was ended by
\* an exception after its Clean step was begun)
NoRun == [repeat |-> FALSE, update |-> FALSE, crashed |-> FALSE, adds |-> 0]

VARIABLES
    provider,       \* records held by the remote provider
    cacheFile,      \* the file dyndns-<hostname>.txt
    run,            \* number of invocations started
    pc,             \* position of the running invocation in main()
    clean,          \* params.clean
    hard,           \* params.hard
    do_log,         \* do_log (params.logfile != '')
    network,        \* source address the OS selects during this invocation
    cached_ip,      \* local cached_ip
    current_ip,     \* local current_ip
    results,        \* local results of dyndns_clean
    idx,            \* position of dyndns_clean's for loop in results
    calls,          \* requests sent to the provider by this invocation
    exc,            \* exception that ended the invocation, or None
    decided,        \* the condition of line 209 was evaluated
    update,         \* ... and was true
    remoteFail,     \* a request of this invocation did not succeed
    ipFailed,       \* get_current_ip raised in this invocation
    listed,         \* provider's records when dns-list_records was answered
    startProvider,  \* provider's records when the invocation started
    startCache,     \* cache file when the invocation started
    prev,           \* relation of this invocation to the previous one
    uuids,          \* the uuid parameter of each request of calls
    outcomes,       \* the outcome of each request of calls
    listsSent,      \* number of dns-list_records requests of all invocations
    listNonces,     \* their uuid parameters
    recordNonces    \* <<record, uuid>> of every add/remove request sent

vars == <<provider, cacheFile, run, pc, clean, hard, do_log, network, cached_ip,
          current_ip, results, idx, calls, exc, decided, update, remoteFail,
          ipFailed, listed, startProvider, startCache, prev, uuids, outcomes,
          listsSent, listNonces, recordNonces>>

wire == <<uuids, outcomes, listsSent, listNonces, recordNonces>>

(* --------------------------- pure functions --------------------------- *)

\* all the enumerations of a finite set as a sequence
RECURSIVE Orderings(_)
Orderings(S) ==
    IF S = {} THEN {<<>>}
    ELSE UNION {{<<x>> \o s : s \in Orderings(S \ {x})} : x \in S}

Range(s) == {s[i] : i \in 1..Len(s)}

\* str.rstrip() on the file's text, a sequence of tokens of which "\n" is
\* white space
RECURSIVE rstrip(_)
rstrip(s) ==
    IF s # <<>> /\ s[Len(s)] = "\n" THEN rstrip(SubSeq(s, 1, Len(s) - 1))
    ELSE s

\* the text of a token sequence (at most one token is left after rstrip)
Text(s) == IF s = <<>> THEN "" ELSE s[1]

\* Log.log is declared log(msg); every call site is logfile.log(<one string>),
\* which passes the instance and the string
LogParams == 1
LogCallArgs == 2
log == IF LogCallArgs = LogParams THEN "returns" ELSE "TypeError"

\* request_json going on with the listed data when urlopen raised URLError
request_json_UrlErrorIgnored(outcome, data) ==
    CASE outcome = "invalid_json" -> [kind |-> "none", result |-> None, data |-> {}]
      [] outcome = "urlerror" -> [kind |-> "json", result |-> "success", data |-> data]
      [] OTHER -> [kind |-> "json", result |-> outcome, data |-> data]

\* request_json: raises ConnectionError on URLError, returns None when the
\* body is not JSON, else the parsed object
request_json(outcome, data) ==
    CASE outcome = "urlerror" -> [kind |-> "raise", result |-> None, data |-> {}]
      [] outcome = "invalid_json" -> [kind |-> "none", result |-> None, data |-> {}]
      [] OTHER -> [kind |-> "json", result |-> outcome, data |-> data]

\* what a caller's  result['result'] == 'success'  does with that value:
\* the exception it ends with, or None when it evaluates
Subscript(r) ==
    CASE r.kind = "raise" -> "ConnectionError"
      [] r.kind = "none" -> "TypeError"
      [] OTHER -> None

\* ListFilter without its filter on the editable flag
ListFilter_NoEditable(x, editable, record, type) ==
    /\ record # None => x.record = record
    /\ type # None => x.type = type

\* the three filters of dyndns_list; a filter that is None is not applied
ListFilter(x, editable, record, type) ==
    /\ editable # None => x.editable = editable
    /\ record # None => x.record = record
    /\ type # None => x.type = type

\* dyndns_list returning an empty list for a result that is not success
dyndns_list_EmptyOnFailure(r, editable, record, type) ==
    IF r.result = "success"
    THEN {ResultList(s) :
            s \in Orderings({x \in r.data : ListFilter(x, editable, record, type)})}
    ELSE {ResultList(<<>>)}

dyndns_list(r, editable, record, type) ==
    IF r.result = "success"
    THEN {ResultList(s) :
            s \in Orderings({x \in r.data : ListFilter(x, editable, record, type)})}
    ELSE {NoResults}

\* UpdateDecision without its comparison of the cached with the current IP
UpdateDecision_NoCompare(cached, current, force) ==
    current # None

\* the condition of the if statement of main, lines 209-211
UpdateDecision(cached, current, force) ==
    /\ current # None
    /\ (cached = None \/ cached # current \/ force)

\* uuid.uuid4(): a random token; the n-th one drawn differs from the others
uuid4(n) == <<"uuid4", n>>

\* uuid.uuid5(uuid.NAMESPACE_URL, name): a hash of the name
uuid5(name) == <<"uuid5", name>>

\* dyndns_list_uuid with one token drawn once and sent with every request
dyndns_list_uuid_Reused(n) == uuid4(1)

\* the uuid parameter of dyndns_list's request, the n-th of them
dyndns_list_uuid(n) == uuid4(n)

\* dyndns_rem_uuid derived from the value of the record to remove
dyndns_rem_uuid_PerValue(record, type, value) == uuid5(value)

\* the uuid parameter of dyndns_rem's request
dyndns_rem_uuid(record, type, value) == uuid5(record)

\* the uuid parameter of dyndns_add's request
dyndns_add_uuid(record, type, value) == uuid5(record)

Request(cmd, record, type, value) ==
    [cmd |-> cmd, record |-> record, type |-> type, value |-> value]

\* the provider's handling of a successful dns-remove_record
Removed(data, record, type, value) ==
    {x \in data : ~(RecordKey(x) = <<record, type, value>> /\ x.editable = "1")}

\* the provider's handling of a successful dns-add_record
Added(data, record, type, value) ==
    data \cup {[record |-> record, type |-> type, value |-> value, editable |-> "1"]}

(* ------------------------------- Init --------------------------------- *)

Init ==
    /\ provider \in {S \in SUBSET DnsRecords :
                        /\ Cardinality(S) <= MaxRecords
                        /\ \A x, y \in S : RecordKey(x) = RecordKey(y) => x = y}
    /\ cacheFile \in {NoFile} \cup {File(<<ip, "\n">>) : ip \in IPs}
                              \cup {File(<<ip>>) : ip \in IPs}
    /\ run = 0
    /\ pc = "idle"
    /\ clean = FALSE
    /\ hard = FALSE
    /\ do_log = FALSE
    /\ network = Unreachable
    /\ cached_ip = Unbound
    /\ current_ip = Unbound
    /\ results = NoResults
    /\ idx = 1
    /\ calls = <<>>
    /\ exc = None
    /\ decided = FALSE
    /\ update = FALSE
    /\ remoteFail = FALSE
    /\ ipFailed = FALSE
    /\ listed = {}
    /\ startProvider = provider
    /\ startCache = cacheFile
    /\ prev = NoRun
    /\ uuids = <<>>
    /\ outcomes = <<>>
    /\ listsSent = 0
    /\ listNonces = {}
    /\ recordNonces = {}

(* ------------------------------ actions ------------------------------- *)

Over == pc \in {"done", "aborted"}

Abort(e) == pc' = "aborted" /\ exc' = e

Adds(cs) == Cardinality({i \in 1..Len(cs) : cs[i].cmd = "dns-add_record"})

\* main, lines 172-182: one invocation starts with its parsed parameters
StartRun ==
    /\ pc = "idle" \/ Over
    /\ run < MaxRuns
    /\ run' = run + 1
    /\ \E c, h, l \in BOOLEAN : clean' = c /\ hard' = h /\ do_log' = l
    /\ network' \in IPs \cup {Unreachable}
    /\ pc' = IF clean' THEN "clean" ELSE "read_cache"
    /\ prev' = IF run = 0 THEN NoRun
               ELSE [repeat |-> /\ ~clean /\ ~clean'
                                /\ ~hard /\ ~hard'
                                /\ network # Unreachable
                                /\ network' = network,
                     update |-> update,
                     crashed |-> update /\ pc = "aborted",
                     adds |-> Adds(calls)]
    /\ cached_ip' = Unbound
    /\ current_ip' = Unbound
    /\ results' = NoResults
    /\ idx' = 1
    /\ calls' = <<>>
    /\ exc' = None
    /\ decided' = FALSE
    /\ update' = FALSE
    /\ remoteFail' = FALSE
    /\ ipFailed' = FALSE
    /\ listed' = {}
    /\ startProvider' = provider
    /\ startCache' = cacheFile
    /\ uuids' = <<>>
    /\ outcomes' = <<>>
    /\ UNCHANGED <<provider, cacheFile, listsSent, listNonces, recordNonces>>

\* main, lines 194-202: read the cache file
ReadCache ==
    /\ pc = "read_cache"
    /\ IF cacheFile.exists
       THEN /\ cached_ip' = Text(rstrip(cacheFile.content))
            /\ pc' = "resolve"
            /\ exc' = exc
       ELSE /\ cached_ip' = None
            /\ IF log = "returns"
               THEN pc' = "resolve" /\ exc' = exc
               ELSE Abort(log)
    /\ UNCHANGED <<provider, cacheFile, run, clean, hard, do_log, network, current_ip,
                   results, idx, calls, decided, update, remoteFail, ipFailed,
                   listed, startProvider, startCache, prev, wire>>

\* main, lines 204-207, with get_current_ip: the socket reports a local address,
\* or connect fails and the ConnectionError is caught and logged
get_current_ip ==
    /\ pc = "resolve"
    /\ \/ /\ network # Unreachable
          /\ current_ip' = network
          /\ pc' = "decide"
          /\ UNCHANGED <<exc, ipFailed>>
       \/ /\ network = Unreachable
          /\ ipFailed' = TRUE
          /\ current_ip' = current_ip
          /\ IF log = "returns"
             THEN pc' = "decide" /\ exc' = exc
             ELSE Abort(log)
    /\ UNCHANGED <<provider, cacheFile, run, clean, hard, do_log, network, cached_ip,
                   results, idx, calls, decided, update, remoteFail,
                   listed, startProvider, startCache, prev, wire>>

\* main, lines 209-211 and 221: the decision; a run that does not update returns 0
Decide ==
    /\ pc = "decide"
    /\ IF current_ip = Unbound
       THEN /\ Abort("UnboundLocalError")
            /\ UNCHANGED <<decided, update>>
       ELSE /\ decided' = TRUE
            /\ update' = UpdateDecision(cached_ip, current_ip, hard)
            /\ pc' = IF update' THEN "clean" ELSE "done"
            /\ exc' = exc
    /\ UNCHANGED <<provider, cacheFile, run, clean, hard, do_log, network, cached_ip,
                   current_ip, results, idx, calls, remoteFail, ipFailed,
                   listed, startProvider, startCache, prev, wire>>

\* dyndns_clean, line 139, with dyndns_list: one dns-list_records request
List ==
    /\ pc = "clean"
    /\ calls' = Append(calls, Request("dns-list_records", None, None, None))
    /\ listed' = provider
    /\ uuids' = Append(uuids, dyndns_list_uuid(listsSent + 1))
    /\ listsSent' = listsSent + 1
    /\ listNonces' = listNonces \cup {dyndns_list_uuid(listsSent + 1)}
    /\ \E o \in ListOutcomes :
        LET r == request_json(o, provider) IN
        /\ outcomes' = Append(outcomes, o)
        /\ remoteFail' = (remoteFail \/ o # "success")
        /\ IF Subscript(r) # None
           THEN Abort(Subscript(r)) /\ results' = results
           ELSE /\ results' \in dyndns_list(r, "1", hostname, "A")
                /\ pc' = "remove"
                /\ exc' = exc
    /\ idx' = 1
    /\ UNCHANGED <<provider, cacheFile, run, clean, hard, do_log, network, cached_ip,
                   current_ip, decided, update, ipFailed, startProvider,
                   startCache, prev, recordNonces>>

\* dyndns_clean, lines 140-142, with dyndns_rem: one turn of the for loop
Remove ==
    /\ pc = "remove"
    /\ ~results.none
    /\ idx <= Len(results.list)
    /\ LET value == results.list[idx].value IN
       /\ calls' = Append(calls, Request("dns-remove_record", hostname, "A", value))
       /\ uuids' = Append(uuids, dyndns_rem_uuid(hostname, "A", value))
       /\ recordNonces' = recordNonces
                            \cup {<<hostname, dyndns_rem_uuid(hostname, "A", value)>>}
       /\ \E o \in Outcomes :
           LET r == request_json(o, {}) IN
           /\ outcomes' = Append(outcomes, o)
           /\ remoteFail' = (remoteFail \/ o # "success")
           /\ provider' = IF o = "success"
                          THEN Removed(provider, hostname, "A", value)
                          ELSE provider
           /\ IF Subscript(r) # None
              THEN Abort(Subscript(r)) /\ idx' = idx
              ELSE idx' = idx + 1 /\ UNCHANGED <<pc, exc>>
    /\ UNCHANGED <<cacheFile, run, clean, hard, do_log, network, cached_ip, current_ip,
                   results, decided, update, ipFailed, listed, startProvider,
                   startCache, prev, listsSent, listNonces>>

CleanReturned == pc = "remove" /\ (results.none \/ idx > Len(results.list))

\* main, lines 184-192: the rest of a clean-mode run after dyndns_clean returned
CleanTail ==
    /\ CleanReturned
    /\ clean
    /\ IF log = "returns"
       THEN Abort("NameError")      \* os.remove: the module never imports os
       ELSE Abort(log)
    /\ UNCHANGED <<provider, cacheFile, run, clean, hard, do_log, network, cached_ip,
                   current_ip, results, idx, calls, decided, update, remoteFail,
                   ipFailed, listed, startProvider, startCache, prev, wire>>

\* main, lines 213-221: the rest of an update run after dyndns_clean returned:
\* log, dyndns_add, write the cache file, log, return 0
UpdateTail ==
    /\ CleanReturned
    /\ ~clean
    /\ IF log # "returns"
       THEN /\ Abort(log)
            /\ UNCHANGED <<provider, cacheFile, calls, remoteFail, uuids,
                           outcomes, recordNonces>>
       ELSE /\ calls' = Append(calls,
                    Request("dns-add_record", hostname, "A", current_ip))
            /\ uuids' = Append(uuids, dyndns_add_uuid(hostname, "A", current_ip))
            /\ recordNonces' = recordNonces
                    \cup {<<hostname, dyndns_add_uuid(hostname, "A", current_ip)>>}
            /\ \E o \in Outcomes :
                LET r == request_json(o, {}) IN
                /\ outcomes' = Append(outcomes, o)
                /\ remoteFail' = (remoteFail \/ o # "success")
                /\ provider' = IF o = "success"
                               THEN Added(provider, hostname, "A", current_ip)
                               ELSE provider
                /\ IF Subscript(r) # None
                   THEN Abort(Subscript(r)) /\ cacheFile' = cacheFile
                   ELSE /\ cacheFile' = File(<<current_ip, "\n">>)
                        /\ pc' = "done"
                        /\ exc' = exc
    /\ UNCHANGED <<run, clean, hard, do_log, network, cached_ip, current_ip, results,
                   idx, decided, update, ipFailed, listed, startProvider,
                   startCache, prev, listsSent, listNonces>>

Next ==
    \/ StartRun
    \/ ReadCache
    \/ get_current_ip
    \/ Decide
    \/ List
    \/ Remove
    \/ CleanTail
    \/ UpdateTail

Spec == Init /\ [][Next]_vars

(* ------------------------------ claims -------------------------------- *)

\* the cached IP the invocation started with: the file's text, or None
\* when there is no file
StartCached == IF startCache.exists THEN Text(rstrip(startCache.content)) ELSE None

\* the Update Decision of the specification on the invocation's inputs
ShouldUpdate ==
    /\ network # Unreachable
    /\ (StartCached = None \/ StartCached # network \/ hard)

\* the records of the listed data the Clean step is to remove
Matching(data) ==
    {x \in data : x.editable = "1" /\ x.record = hostname /\ x.type = "A"}

RemoveRequest(x) == Request("dns-remove_record", x.record, x.type, x.value)

IsMutation(c) == c.cmd \in {"dns-remove_record", "dns-add_record"}

Removals == {i \in 1..Len(calls) : calls[i].cmd = "dns-remove_record"}

\* dyndns_clean listed the records and its for loop ran to its end
CleanCompleted == ~results.none /\ idx > Len(results.list)

\* C1: in a normal (non-clean) run the update proceeds (its Clean step is
\* begun) if and only if the current IP is known and (the cached IP is
\* unknown or differs from the current IP or the force flag is set).
C1_UpdateIffDecision ==
    (Over /\ ~clean) => ((calls # <<>>) <=> ShouldUpdate)

\* C2: of two successive update-flow runs with the same current IP and no
\* force flag, the second one's Update Decision is false, and the two runs
\* issue at most one addRecord call together.
C2_SecondRunDoesNotUpdate ==
    (run >= 2 /\ Over /\ prev.repeat)
    => (~update /\ prev.adds + Adds(calls) <= 1)

\* C3: every removeRecord request is for a record the provider held that is
\* editable, has the target hostname and is an address record, no record is
\* removed twice, and when the Clean step has listed the records and run to
\* its end, exactly these records have had their removal requested.
C3_CleanRemovesExactlyMatching ==
    /\ \A i \in Removals : \E x \in Matching(listed) : calls[i] = RemoveRequest(x)
    /\ \A i, j \in Removals : calls[i] = calls[j] => i = j
    /\ CleanCompleted =>
         {calls[i] : i \in Removals} = {RemoveRequest(x) : x \in Matching(listed)}

\* a Clean step that ran to its end, removed a record and left another,
\* non-matching record alone
C3_Witness ==
    /\ CleanCompleted
    /\ Removals # {}
    /\ listed \ Matching(listed) # {}

\* C5: in an update run, when the Clean step has returned (the moment
\* addRecord is issued) the provider holds no editable address record for the
\* hostname, and after the Add it holds at most one.
C5_NoEditableRecordAtAdd ==
    /\ (~clean /\ update /\ CleanReturned) => Matching(provider) = {}
    /\ (~clean /\ update /\ Adds(calls) > 0) => Cardinality(Matching(provider)) <= 1

\* C6: a run in which a remote call failed (transport failure or a failure
\* reported by the provider) ends with exit code 0, not with an exception.
C6_RemoteFailureExitsZero ==
    (Over /\ remoteFail) => (pc = "done" /\ exc = None)

\* C7: when IP resolution fails, the run makes no remote call, does not write
\* the cache and completes normally with the Update Decision false.
C7_ResolutionFailureSkipsUpdate ==
    ipFailed =>
        /\ pc # "aborted"
        /\ ~update
        /\ calls = <<>>
        /\ cacheFile = startCache

\* C8: an update run whose remote calls all succeed issues one listRecords,
\* then one removeRecord per matching listed record, then one addRecord with
\* the current IP, and ends with the cache holding the current IP.
C8_UpdateRunCallSequence ==
    (Over /\ ~clean /\ update /\ ~remoteFail) =>
        /\ Len(calls) = Cardinality(Matching(listed)) + 2
        /\ calls[1].cmd = "dns-list_records"
        /\ \A i \in 2..(Len(calls) - 1) : calls[i].cmd = "dns-remove_record"
        /\ calls[Len(calls)] = Request("dns-add_record", hostname, "A", network)
        /\ cacheFile.exists
        /\ Text(rstrip(cacheFile.content)) = network

\* C9: a clean-mode run (with a healthy provider) lists the records, removes
\* every matching one, issues no addRecord and ends with the cache entry
\* deleted.
C9_CleanModeDeletesCache ==
    (Over /\ clean /\ ~remoteFail) =>
        /\ calls # <<>>
        /\ calls[1].cmd = "dns-list_records"
        /\ {calls[i] : i \in Removals} = {RemoveRequest(x) : x \in Matching(listed)}
        /\ Adds(calls) = 0
        /\ ~cacheFile.exists

\* C10: a run that is not in clean mode and whose Update Decision is false
\* makes no removeRecord and no addRecord call and leaves the provider's
\* records and the cache as they were when it started.
C10_NoOpRunChangesNothing ==
    (run >= 1 /\ ~clean /\ ~ShouldUpdate) =>
        /\ \A i \in 1..Len(calls) : ~IsMutation(calls[i])
        /\ provider = startProvider
        /\ cacheFile = startCache

\* a no-op run that returned 0 with cached IP = current IP while the provider
\* holds a record an update would have removed
C10_Witness ==
    /\ pc = "done"
    /\ ~clean /\ ~hard
    /\ decided
    /\ StartCached = network
    /\ Matching(provider) # {}

\* the address record an update run with the current IP is to add
NewRecord == [record |-> hostname, type |-> "A", value |-> network, editable |-> "1"]

CacheHolds(ip) == cacheFile.exists /\ Text(rstrip(cacheFile.content)) = ip

C12_NextRunHealsAfterCrash ==
    (/\ run >= 2
     /\ prev.repeat /\ prev.crashed
     /\ Over /\ ~remoteFail)
    => (/\ update
        /\ Matching(provider) = {NewRecord}
        /\ CacheHolds(network))

\* C13: with logging disabled every log call returns, so a run without a
\* remote failure runs to its end: an update run issues its Add and writes
\* the cache after the Clean step, a clean-mode run deletes the cache file.
C13_DisabledLogIsNoOp ==
    (~do_log /\ Over /\ ~remoteFail) =>
        /\ pc = "done"
        /\ exc # "TypeError"
        /\ (~clean /\ update) => (Adds(calls) = 1 /\ CacheHolds(network))
        /\ clean => ~cacheFile.exists

\* C14: no two listRecords requests carry the same nonce, and all addRecord
\* and removeRecord requests for one hostname carry one nonce, the one derived
\* from the hostname, whatever the value and whichever of the two commands.
C14_NoncePolicy ==
    /\ Cardinality(listNonces) = listsSent
    /\ \A p, q \in recordNonces : p[1] = q[1] => p[2] = q[2]
    /\ \A p \in recordNonces : \A ip \in IPs :
          /\ dyndns_rem_uuid(p[1], "A", ip) = p[2]
          /\ dyndns_add_uuid(p[1], "A", ip) = p[2]

\* two listRecords requests were sent, and two removeRecord requests with
\* different values
C14_Witness ==
    /\ listsSent >= 2
    /\ \E i, j \in Removals : calls[i].value # calls[j].value

\* dyndns_list returned a value (its request was answered with a JSON object)
ListReturned == outcomes # <<>> /\ outcomes[1] \in {"success", "error", "no_records"}

\* C15 as stated: listRecords returns an empty sequence when the provider
\* reports that no record matches, an error for every other failure, and the
\* two are different values.
C15_ListDistinguishesNoRecords ==
    ListReturned =>
        /\ outcomes[1] = "no_records" => results = ResultList(<<>>)
        /\ outcomes[1] = "error" => results # ResultList(<<>>)

\* C15 as amended: listRecords returns the same value None for every result
\* that is not success, the report that no record matches included, and an
\* empty sequence only for a success none of whose records passes the filters.
C15_ListReturnsNoneOnAnyFailure ==
    ListReturned =>
        /\ outcomes[1] \in {"error", "no_records"} <=> results = NoResults
        /\ results = ResultList(<<>>) <=>
              (outcomes[1] = "success" /\ Matching(listed) = {})

\* the provider reported that no record matches, and dyndns_list returned
C15_Witness == ListReturned /\ outcomes[1] = "no_records" /\ pc = "remove"

\* C16: a response body that is not valid JSON ends the operation with a
\* ProtocolError, not with a ConnectionError or any other fault.
C16_InvalidJsonIsProtocolError ==
    (outcomes # <<>> /\ outcomes[Len(outcomes)] = "invalid_json") =>
        (pc = "aborted" /\ exc = "ProtocolError")

\* C17: when the listRecords call of an update run reports a non-success
\* result, the run issues no removeRecord, still issues addRecord with the
\* current IP and writes the current IP to the cache, and the records the
\* hostname had stay at the provider.
C17_ListFailureStillAdds ==
    (/\ Over /\ ~clean /\ update
     /\ outcomes # <<>>
     /\ outcomes[1] \in {"error", "no_records"})
    => (/\ Removals = {}
        /\ Adds(calls) = 1
        /\ calls[Len(calls)] = Request("dns-add_record", hostname, "A", network)
        /\ CacheHolds(network)
        /\ Matching(startProvider) \subseteq provider)

\* C18: in an update run a removeRecord that reports failure does not stop
\* the enumeration (every listed record gets its removal request, and the Add
\* follows), while a removeRecord that fails at the transport level is the
\* run's last request: no addRecord and no cache write follow.
C18_RemoveFailureHandling ==
    /\ (/\ Over /\ ~clean /\ update
        /\ ~results.none
        /\ \E i \in Removals : outcomes[i] = "error"
        /\ \A i \in Removals : outcomes[i] \in {"success", "error"})
       => (/\ Cardinality(Removals) = Len(results.list)
           /\ Adds(calls) = 1)
    /\ \A i \in Removals :
          outcomes[i] = "urlerror" =>
              /\ i = Len(calls)
              /\ pc = "aborted"
              /\ exc = "ConnectionError"
              /\ cacheFile = startCache

\* C19: a run whose listRecords call fails at the transport level ends there:
\* it has issued no removeRecord and no addRecord request, and the provider's
\* records and the cache file are as they were when the run started.
C19_ListTransportFailureChangesNothing ==
    (outcomes # <<>> /\ outcomes[1] = "urlerror") =>
        /\ pc = "aborted"
        /\ exc = "ConnectionError"
        /\ Len(calls) = 1
        /\ provider = startProvider
        /\ cacheFile = startCache

\* an update run ended by the transport failure of its listRecords call while
\* the provider holds a record the Clean step would have removed
C19_Witness ==
    /\ outcomes # <<>> /\ outcomes[1] = "urlerror"
    /\ ~clean /\ update
    /\ pc = "aborted"
    /\ Matching(provider) # {}

\* C20: every removeRecord request of a run carries the nonce that the run's
\* addRecord request carries (the one derived from the hostname, whatever the
\* command and the value), so once a removal was sent the Add's nonce is one
\* the provider has seen; and an update run that sent a removal gets no new
\* record added.
C20_AddSharesRemoveNonce ==
    /\ \A i \in 1..Len(calls) :
          IsMutation(calls[i]) =>
              \A ip \in IPs : uuids[i] = dyndns_add_uuid(hostname, "A", ip)
    /\ (~clean /\ update /\ Removals # {}) =>
          /\ \E i \in Removals :
                uuids[i] = dyndns_add_uuid(hostname, "A", network)
          /\ provider \subseteq startProvider

\* an update run that has sent removal requests for two different values
C20_Witness ==
    /\ ~clean /\ update
    /\ \E i, j \in Removals : calls[i].value # calls[j].value

====
